---- MODULE Spec2Model ----
(***************************************************************************)
(* A state-machine model of sync-r2-to-local.ts: the command line tool     *)
(* that copies the objects of a remote R2 bucket into the local Miniflare  *)
(* store.  One process runs main(); every awaited call is one step.  The   *)
(* remote bucket, the local state directories and the wrangler CLI are     *)
(* the environment: their failures are nondeterministic choices.           *)
(***************************************************************************)
EXTENDS Integers, Sequences, FiniteSets, TLC

\* ------------------------------------------------------------------ bounds
\* Longest remote bucket listing.
MaxObjects == 2
\* Objects per listing response (MaxKeys: 1000 in the source, scaled down so
\* that a listing of MaxObjects objects takes more than one page).
PageSize == 1
\* Number of successive invocations of the tool.
MaxRuns == 2

\* ------------------------------------------------------- values of the model
\* Object keys of the bucket.
Keys == {"a", "b"}
\* The key of a listing entry without one: undefined or "" (both are falsy).
NoKey == ""
KeyVals == Keys \cup {NoKey}
\* _Object, reduced to its Key.
Objects == [Key : KeyVals]

RECURSIVE SeqsUpTo(_, _)
SeqsUpTo(S, n) ==
    IF n = 0 THEN {<<>>}
    ELSE LET shorter == SeqsUpTo(S, n - 1)
         IN  shorter \cup {Append(s, x) : s \in {t \in shorter : Len(t) = n - 1}, x \in S}

\* The three required environment variables.
REQUIRED == {"CLOUDFLARE_ACCOUNT_ID", "CLOUDFLARE_ACCESS_KEY_ID", "CLOUDFLARE_SECRET_ACCESS_KEY"}

\* Paths are sequences of segments.  path.join concatenates and normalises:
\* "." segments disappear.
RECURSIVE Normalize(_)
Normalize(p) ==
    IF p = <<>> THEN <<>>
    ELSE IF Head(p) = "." THEN Normalize(Tail(p))
    ELSE <<Head(p)>> \o Normalize(Tail(p))

PathJoin(a, b) == Normalize(a \o b)

\* let wranglerDir = './.wrangler'
DefaultWranglerDir == <<".", ".wrangler">>
\* a value given with --wrangler-dir=
CustomWranglerDir == <<"..", "other", ".wrangler">>
WranglerDirs == {DefaultWranglerDir, CustomWranglerDir}

MINIFLARE_KEY == "miniflare-R2BucketObject"
\* The directory holding every local R2 database of a wrangler directory.
R2Root(dir) == PathJoin(dir, <<"state", "v3", "r2">>)
\* const MINIFLARE_DIR = path.join(wranglerDir, 'state', 'v3', 'r2', MINIFLARE_KEY)
MiniflareDir(dir) == PathJoin(dir, <<"state", "v3", "r2", MINIFLARE_KEY>>)
\* const wranglerPath = '.wrangler/state/v3/r2' in cleanLocalBucket
CleanPath == <<".wrangler", "state", "v3", "r2">>

R2Roots == {R2Root(d) : d \in WranglerDirs}
\* The r2 root a MINIFLARE_DIR lies in: the path without its last segment.
ParentDir(p) == SubSeq(p, 1, Len(p) - 1)

\* What is on disk under one r2 root:
\*   "noroot"  the r2 directory does not exist, and so neither does the
\*             miniflare-R2BucketObject directory in it
\*   "nodb"    the directories exist, the bucket's .sqlite file does not
\*   "db"      the database file exists and holds `keys`
StoreStates ==
    {[status |-> s, keys |-> {}] : s \in {"noroot", "nodb"}}
        \cup {[status |-> "db", keys |-> ks] : ks \in SUBSET Keys}
Removed == [status |-> "noroot", keys |-> {}]

VARIABLES
    \* process.argv and process.env of the current invocation
    helpArg, BUCKET_NAME, forceSync, cleanSync, wranglerDir, env,
    \* environment: the remote bucket, the local stores, where wrangler persists
    remote, store, toolRoot,
    \* the scratch directory ./temp-r2-sync and the files in it
    tempDir, tempFiles,
    \* control state of main() / syncR2ToLocal() / syncObjects()
    pc, error, exitCode,
    \* locals of listRemoteObjects, syncR2ToLocal and syncObjects
    objects, continuationToken, localObjects, objectsToSync, idx, processed,
    \* history of the run: the side effects in the order they happened
    log,
    \* history: how the local listing failed, whether the wrangler check failed,
    \* whether an exception was thrown inside syncR2ToLocal
    localListing, wranglerFailed, thrown,
    \* history across invocations: how many there were, and whether the last
    \* one was a successful normal-mode sync of the bucket as it still is
    runs, prev

vars == <<helpArg, BUCKET_NAME, forceSync, cleanSync, wranglerDir, env,
          remote, store, toolRoot, tempDir, tempFiles, pc, error, exitCode,
          objects, continuationToken, localObjects, objectsToSync, idx, processed,
          log, localListing, wranglerFailed, thrown, runs, prev>>

argVars == <<helpArg, BUCKET_NAME, forceSync, cleanSync, wranglerDir, env>>
envVars == <<remote, store, toolRoot>>
tempVars == <<tempDir, tempFiles>>
listVars == <<objects, continuationToken>>
loopVars == <<idx, processed>>
histVars == <<localListing, wranglerFailed, thrown>>
runVars == <<runs, prev>>

NoPrev == [normalOk |-> FALSE, dir |-> DefaultWranglerDir]

Event(e, k) == [ev |-> e, key |-> k]
Logged(e) == \E i \in 1..Len(log) : log[i].ev = e

\* const missing = required.filter((env) => !process.env[env])
Missing == REQUIRED \ env

Init ==
    /\ helpArg = FALSE /\ BUCKET_NAME = "" /\ forceSync = FALSE /\ cleanSync = FALSE
    /\ wranglerDir = DefaultWranglerDir /\ env = {}
    /\ remote \in SeqsUpTo(Objects, MaxObjects)
    /\ store \in [R2Roots -> StoreStates]
    /\ toolRoot \in R2Roots
    /\ tempDir = FALSE /\ tempFiles = {}
    /\ pc = "idle" /\ error = FALSE /\ exitCode = -1
    /\ objects = <<>> /\ continuationToken = 0 /\ localObjects = {}
    /\ objectsToSync = <<>> /\ idx = 1 /\ processed = 0
    /\ log = <<>>
    /\ localListing = "none" /\ wranglerFailed = FALSE /\ thrown = FALSE
    /\ runs = 0
    /\ prev = NoPrev

\* ------------------------------------------------------------ pure functions
\* FilterObjects with the local key set ignored: every object with a key.
FilterObjectsIgnoringLocal(remoteObjects, local, force, clean) ==
    LET keep(obj) == obj.Key # NoKey
    IN  SelectSeq(remoteObjects, keep)

\* FilterObjects with the force flag ignored.
FilterObjectsIgnoringForce(remoteObjects, local, force, clean) ==
    LET keep(obj) == /\ obj.Key # NoKey
                     /\ (clean \/ obj.Key \notin local)
    IN  SelectSeq(remoteObjects, keep)

\* remoteObjects.filter((obj) => { const key = obj.Key; if (!key) return false;
\*   if (forceSync || cleanSync) return true; return !localObjects.includes(key) })
FilterObjects(remoteObjects, local, force, clean) ==
    LET keep(obj) == /\ obj.Key # NoKey
                     /\ (force \/ clean \/ obj.Key \notin local)
    IN  SelectSeq(remoteObjects, keep)

\* One ListObjectsV2 response of the store for the bucket `bucket` when asked
\* with continuation token `token` (0: no token): at most PageSize objects,
\* and a token for the rest when the listing is truncated.
ListResponse(bucket, token) ==
    LET last == IF token + PageSize < Len(bucket) THEN token + PageSize ELSE Len(bucket)
    IN  [Contents |-> SubSeq(bucket, token + 1, last),
         NextContinuationToken |-> IF last < Len(bucket) THEN last ELSE 0]

\* The keys of a sequence of objects, in order; an entry without a key has none.
RECURSIVE KeysOf(_)
KeysOf(objs) ==
    IF objs = <<>> THEN <<>>
    ELSE (IF Head(objs).Key = NoKey THEN <<>> ELSE <<Head(objs).Key>>) \o KeysOf(Tail(objs))

\* ------------------------------------------------------------- invocations
\* The command lines and environments tried.  Flags are read only by a run
\* that gets past the help, bucket-name and credential checks, so they vary
\* only there.
Invocation(h, b, f, c, d, e) ==
    [help |-> h, bucket |-> b, force |-> f, clean |-> c, dir |-> d, env |-> e]

Invocations ==
    {Invocation(TRUE, b, FALSE, FALSE, DefaultWranglerDir, e) :
        b \in {"", "bkt"}, e \in {REQUIRED, {}}}
    \cup {Invocation(FALSE, "", FALSE, FALSE, DefaultWranglerDir, e) : e \in {REQUIRED, {}}}
    \cup {Invocation(FALSE, "bkt", FALSE, TRUE, DefaultWranglerDir, REQUIRED \ m) :
            m \in (SUBSET REQUIRED) \ {{}}}
    \cup {Invocation(FALSE, "bkt", f, c, d, REQUIRED) :
            f \in BOOLEAN, c \in BOOLEAN, d \in WranglerDirs}

\* ----------------------------------------------------------------- actions
\* The module's top level: argv and env are read, then main() is called.
StartRun ==
    /\ pc = "idle"
    /\ runs < MaxRuns
    /\ \E inv \in Invocations :
          /\ helpArg' = inv.help
          /\ BUCKET_NAME' = inv.bucket
          /\ forceSync' = inv.force
          /\ cleanSync' = inv.clean
          /\ wranglerDir' = inv.dir
          /\ env' = inv.env
    /\ pc' = "main"
    /\ runs' = runs + 1
    /\ UNCHANGED <<envVars, tempVars, error, exitCode, listVars, localObjects,
                   objectsToSync, loopVars, log, histVars, prev>>

\* The process has ended: its memory is gone, the files and the stores stay.
Terminated ==
    /\ pc = "exited"
    /\ pc' = "idle"
    /\ helpArg' = FALSE /\ BUCKET_NAME' = "" /\ forceSync' = FALSE /\ cleanSync' = FALSE
    /\ wranglerDir' = DefaultWranglerDir /\ env' = {}
    /\ error' = FALSE /\ exitCode' = -1
    /\ objects' = <<>> /\ continuationToken' = 0 /\ localObjects' = {}
    /\ objectsToSync' = <<>> /\ idx' = 1 /\ processed' = 0
    /\ log' = <<>>
    /\ localListing' = "none" /\ wranglerFailed' = FALSE /\ thrown' = FALSE
    /\ prev' = IF exitCode = 0 /\ Logged("list") /\ ~forceSync /\ ~cleanSync
                 THEN [normalOk |-> TRUE, dir |-> wranglerDir]
                 ELSE NoPrev
    /\ UNCHANGED <<envVars, tempVars, runs>>

\* Between two invocations somebody puts an object into the remote bucket.
RemotePut ==
    /\ pc = "idle"
    /\ 0 < runs /\ runs < MaxRuns
    /\ Len(remote) < MaxObjects
    /\ \E k \in Keys : remote' = Append(remote, [Key |-> k])
    /\ prev' = NoPrev
    /\ UNCHANGED <<argVars, store, toolRoot, tempVars, pc, error, exitCode, listVars,
                   localObjects, objectsToSync, loopVars, log, histVars, runs>>

\* main(): --help / -h, or no bucket name: print the usage and return.
MainArgs ==
    /\ pc = "main"
    /\ IF helpArg \/ BUCKET_NAME = ""
         THEN pc' = "exited" /\ exitCode' = 0
         ELSE pc' = "checkEnv" /\ UNCHANGED exitCode
    /\ UNCHANGED <<argVars, envVars, tempVars, error, listVars, localObjects,
                   objectsToSync, loopVars, log, histVars, runVars>>

\* checkEnvironmentVariables() that reports the missing variables and goes on.
CheckEnvironmentVariablesNoExit ==
    /\ pc = "checkEnv"
    /\ pc' = "checkWrangler"
    /\ UNCHANGED <<argVars, envVars, tempVars, error, exitCode, listVars, localObjects,
                   objectsToSync, loopVars, log, histVars, runVars>>

\* checkEnvironmentVariables(): process.exit(1) when a variable is missing.
CheckEnvironmentVariables ==
    /\ pc = "checkEnv"
    /\ IF Missing # {}
         THEN pc' = "exited" /\ exitCode' = 1
         ELSE pc' = "checkWrangler" /\ UNCHANGED exitCode
    /\ UNCHANGED <<argVars, envVars, tempVars, error, listVars, localObjects,
                   objectsToSync, loopVars, log, histVars, runVars>>

\* checkWranglerAvailable(): runs `npx wrangler --version`; process.exit(1)
\* when the command fails.
CheckWranglerAvailable ==
    /\ pc = "checkWrangler"
    /\ log' = Append(log, Event("tool", NoKey))
    /\ \E ok \in BOOLEAN :
          IF ok
            THEN pc' = "createClient" /\ UNCHANGED <<exitCode, wranglerFailed>>
            ELSE pc' = "exited" /\ exitCode' = 1 /\ wranglerFailed' = TRUE
    /\ UNCHANGED <<argVars, envVars, tempVars, error, listVars, localObjects,
                   objectsToSync, loopVars, localListing, thrown, runVars>>

\* syncR2ToLocal(): createRemoteClient() throws when a credential is missing.
CreateRemoteClient ==
    /\ pc = "createClient"
    /\ IF Missing # {}
         THEN pc' = "catch" /\ error' = TRUE /\ thrown' = TRUE
         ELSE pc' = "ensureTemp" /\ UNCHANGED <<error, thrown>>
    /\ UNCHANGED <<argVars, envVars, tempVars, exitCode, listVars, localObjects,
                   objectsToSync, loopVars, log, localListing, wranglerFailed, runVars>>

\* The clean-mode switch taken in force mode too.
CleanRequestedOrForce == cleanSync \/ forceSync

\* if (cleanSync) await cleanLocalBucket()
CleanRequested == cleanSync

\* await ensureDirectoryExists(TEMP_DIR), then the clean-mode switch.
EnsureTempDir ==
    /\ pc = "ensureTemp"
    /\ tempDir' = TRUE
    /\ log' = IF tempDir THEN log ELSE Append(log, Event("mkdirTemp", NoKey))
    /\ pc' = IF CleanRequested THEN "clean" ELSE "listRemote"
    /\ UNCHANGED <<argVars, envVars, tempFiles, error, exitCode, listVars, localObjects,
                   objectsToSync, loopVars, histVars, runVars>>

\* The directory cleanLocalBucket() removes.
CleanTarget == CleanPath

\* cleanLocalBucket(): removes the directory when it exists (fs.rmSync may
\* throw), warns and returns when it does not.
CleanLocalBucket ==
    /\ pc = "clean"
    /\ IF CleanTarget \in R2Roots /\ store[CleanTarget].status # "noroot"
         THEN \E ok \in BOOLEAN :
                IF ok
                  THEN /\ store' = [store EXCEPT ![CleanTarget] = Removed]
                       /\ log' = Append(log, Event("rmStore", NoKey))
                       /\ pc' = "listRemote"
                       /\ UNCHANGED <<error, thrown>>
                  ELSE /\ pc' = "catch" /\ error' = TRUE /\ thrown' = TRUE
                       /\ UNCHANGED <<store, log>>
         ELSE /\ pc' = "listRemote"
              /\ UNCHANGED <<store, log, error, thrown>>
    /\ UNCHANGED <<argVars, remote, toolRoot, tempVars, exitCode, listVars, localObjects,
                   objectsToSync, loopVars, localListing, wranglerFailed, runVars>>

\* listRemoteObjects() with an `if` where the `while` is: one request, whatever
\* token the response carries.
ListRemoteObjectsOnePage ==
    /\ pc = "listRemote"
    /\ log' = Append(log, Event("list", NoKey))
    /\ \E ok \in BOOLEAN :
          IF ok
            THEN LET response == ListResponse(remote, continuationToken)
                 IN  /\ objects' = objects \o response.Contents
                     /\ continuationToken' = response.NextContinuationToken
                     /\ pc' = "listed"
                     /\ UNCHANGED <<error, thrown>>
            ELSE /\ pc' = "catch" /\ error' = TRUE /\ thrown' = TRUE
                 /\ UNCHANGED listVars
    /\ UNCHANGED <<argVars, envVars, tempVars, exitCode, localObjects, objectsToSync,
                   loopVars, localListing, wranglerFailed, runVars>>

\* listRemoteObjects(): one pass of the do ... while (continuationToken) loop.
\* The request fails (the error is logged and re-thrown) or a page arrives.
ListRemoteObjects ==
    /\ pc = "listRemote"
    /\ log' = Append(log, Event("list", NoKey))
    /\ \E ok \in BOOLEAN :
          IF ok
            THEN LET response == ListResponse(remote, continuationToken)
                 IN  /\ objects' = objects \o response.Contents
                     /\ continuationToken' = response.NextContinuationToken
                     /\ pc' = IF response.NextContinuationToken # 0
                                THEN "listRemote" ELSE "listed"
                     /\ UNCHANGED <<error, thrown>>
            ELSE /\ pc' = "catch" /\ error' = TRUE /\ thrown' = TRUE
                 /\ UNCHANGED listVars
    /\ UNCHANGED <<argVars, envVars, tempVars, exitCode, localObjects, objectsToSync,
                   loopVars, localListing, wranglerFailed, runVars>>

\* The step after the remote listing that skips the local listing in clean
\* mode only.
RemoteListedLocalUnlessClean ==
    /\ pc = "listed"
    /\ pc' = IF Len(objects) = 0 THEN "finally"
             ELSE IF ~cleanSync THEN "listLocal"
             ELSE "reconcile"
    /\ UNCHANGED <<argVars, envVars, tempVars, error, exitCode, listVars, localObjects,
                   objectsToSync, loopVars, log, histVars, runVars>>

\* The step after the remote listing without the return on an empty listing.
RemoteListedNoEarlyReturn ==
    /\ pc = "listed"
    /\ pc' = IF ~cleanSync /\ ~forceSync THEN "listLocal" ELSE "reconcile"
    /\ UNCHANGED <<argVars, envVars, tempVars, error, exitCode, listVars, localObjects,
                   objectsToSync, loopVars, log, histVars, runVars>>

\* if (remoteObjects.length === 0) return; otherwise on to the local listing,
\* which clean mode and force mode skip.
RemoteListed ==
    /\ pc = "listed"
    /\ pc' = IF Len(objects) = 0 THEN "finally"
             ELSE IF ~cleanSync /\ ~forceSync THEN "listLocal"
             ELSE "reconcile"
    /\ UNCHANGED <<argVars, envVars, tempVars, error, exitCode, listVars, localObjects,
                   objectsToSync, loopVars, log, histVars, runVars>>

\* The r2 directory with the fixed path of cleanLocalBucket instead of the
\* configured one.
DbRootHardCoded == CleanPath

\* The r2 directory the database path `${MINIFLARE_DIR}/${databaseName}.sqlite`
\* lies in.
DbRoot == ParentDir(MiniflareDir(wranglerDir))

\* listLocalObjectsFromDatabase() without its try / catch: a read error
\* propagates.
ListLocalObjectsThrowing ==
    /\ pc = "listLocal"
    /\ LET st == store[DbRoot]
       IN  IF st.status = "noroot"
             THEN /\ localObjects' = {} /\ localListing' = "nodir" /\ pc' = "reconcile"
                  /\ UNCHANGED <<log, error, thrown>>
           ELSE IF st.status = "nodb"
             THEN /\ localObjects' = {} /\ localListing' = "nodb" /\ pc' = "reconcile"
                  /\ UNCHANGED <<log, error, thrown>>
           ELSE /\ log' = Append(log, Event("openDb", NoKey))
                /\ \E ok \in BOOLEAN :
                      IF ok THEN /\ localObjects' = st.keys /\ localListing' = "read"
                                 /\ pc' = "reconcile" /\ UNCHANGED <<error, thrown>>
                            ELSE /\ localObjects' = {} /\ localListing' = "readError"
                                 /\ pc' = "catch" /\ error' = TRUE /\ thrown' = TRUE
    /\ UNCHANGED <<argVars, envVars, tempVars, exitCode, listVars, objectsToSync,
                   loopVars, wranglerFailed, runVars>>

\* listLocalObjects() / listLocalObjectsFromDatabase(): [] when MINIFLARE_DIR
\* or the database file is absent, [] when opening or reading throws (the
\* catch returns []), the keys of _mf_objects otherwise.
ListLocalObjects ==
    /\ pc = "listLocal"
    /\ LET st == store[DbRoot]
       IN  IF st.status = "noroot"
             THEN localObjects' = {} /\ localListing' = "nodir" /\ UNCHANGED log
           ELSE IF st.status = "nodb"
             THEN localObjects' = {} /\ localListing' = "nodb" /\ UNCHANGED log
           ELSE /\ log' = Append(log, Event("openDb", NoKey))
                /\ \E ok \in BOOLEAN :
                      IF ok THEN localObjects' = st.keys /\ localListing' = "read"
                            ELSE localObjects' = {} /\ localListing' = "readError"
    /\ pc' = "reconcile"
    /\ UNCHANGED <<argVars, envVars, tempVars, error, exitCode, listVars, objectsToSync,
                   loopVars, wranglerFailed, thrown, runVars>>

\* The filter that determines objectsToSync; return when nothing is to sync.
Reconcile ==
    /\ pc = "reconcile"
    /\ objectsToSync' = FilterObjects(objects, localObjects, forceSync, cleanSync)
    /\ pc' = IF Len(objectsToSync') = 0 THEN "finally" ELSE "loop"
    /\ UNCHANGED <<argVars, envVars, tempVars, error, exitCode, listVars, localObjects,
                   loopVars, log, histVars, runVars>>

\* syncObjects(): the head of the for loop.  An entry without a key is
\* skipped; after the last entry syncObjects returns.
SyncObjectsNext ==
    /\ pc = "loop"
    /\ IF idx > Len(objectsToSync)
         THEN pc' = "finally" /\ UNCHANGED loopVars
       ELSE IF objectsToSync[idx].Key = NoKey
         THEN pc' = "loop" /\ idx' = idx + 1 /\ UNCHANGED processed
       ELSE pc' = "download" /\ processed' = processed + 1 /\ UNCHANGED idx
    /\ UNCHANGED <<argVars, envVars, tempVars, error, exitCode, listVars, localObjects,
                   objectsToSync, log, histVars, runVars>>

\* downloadObject() whose failure is logged and the loop continued with the
\* next object.
DownloadObjectSkipping ==
    /\ pc = "download"
    /\ LET key == objectsToSync[idx].Key
       IN  \E ok \in BOOLEAN :
             IF ok
               THEN /\ tempDir' = TRUE
                    /\ tempFiles' = tempFiles \cup {key}
                    /\ log' = Append(log, Event("download", key))
                    /\ pc' = "upload"
                    /\ UNCHANGED <<error, thrown, idx>>
               ELSE /\ log' = Append(log, Event("downloadFail", key))
                    /\ pc' = "loop" /\ idx' = idx + 1
                    /\ UNCHANGED <<tempVars, error, thrown>>
    /\ UNCHANGED <<argVars, envVars, exitCode, listVars, localObjects, objectsToSync,
                   processed, localListing, wranglerFailed, runVars>>

\* downloadObject(): GetObject, the body collected into a buffer, the
\* directory of the scratch file ensured, the file written; any failure is
\* logged and re-thrown.
DownloadObject ==
    /\ pc = "download"
    /\ LET key == objectsToSync[idx].Key
       IN  \E ok \in BOOLEAN :
             IF ok
               THEN /\ tempDir' = TRUE
                    /\ tempFiles' = tempFiles \cup {key}
                    /\ log' = Append(log, Event("download", key))
                    /\ pc' = "upload"
                    /\ UNCHANGED <<error, thrown>>
               ELSE /\ log' = Append(log, Event("downloadFail", key))
                    /\ pc' = "catch" /\ error' = TRUE /\ thrown' = TRUE
                    /\ UNCHANGED tempVars
    /\ UNCHANGED <<argVars, envVars, exitCode, listVars, localObjects, objectsToSync,
                   loopVars, localListing, wranglerFailed, runVars>>

\* uploadObjectToLocal() that logs a failed upload and does not re-throw.
UploadObjectToLocalSwallowing ==
    /\ pc = "upload"
    /\ LET key == objectsToSync[idx].Key
       IN  \E ok \in BOOLEAN :
             IF ok
               THEN /\ store' = [store EXCEPT ![toolRoot] =
                                   [status |-> "db", keys |-> @.keys \cup {key}]]
                    /\ log' = Append(log, Event("upload", key))
               ELSE /\ log' = Append(log, Event("uploadFail", key))
                    /\ UNCHANGED store
    /\ pc' = "unlink"
    /\ UNCHANGED <<argVars, remote, toolRoot, tempVars, error, exitCode, listVars,
                   localObjects, objectsToSync, loopVars, histVars, runVars>>

\* uploadObjectToLocal(): `wrangler r2 object put <bucket>/<key> --file <path>`.
\* The command puts the key into the store wrangler persists to, or exits
\* non-zero, and then the error is logged and re-thrown.
UploadObjectToLocal ==
    /\ pc = "upload"
    /\ LET key == objectsToSync[idx].Key
       IN  \E ok \in BOOLEAN :
             IF ok
               THEN /\ store' = [store EXCEPT ![toolRoot] =
                                   [status |-> "db", keys |-> @.keys \cup {key}]]
                    /\ log' = Append(log, Event("upload", key))
                    /\ pc' = "unlink"
                    /\ UNCHANGED <<error, thrown>>
               ELSE /\ log' = Append(log, Event("uploadFail", key))
                    /\ pc' = "catch" /\ error' = TRUE /\ thrown' = TRUE
                    /\ UNCHANGED store
    /\ UNCHANGED <<argVars, remote, toolRoot, tempVars, exitCode, listVars, localObjects,
                   objectsToSync, loopVars, localListing, wranglerFailed, runVars>>

\* The end of the loop body without the unlink of the scratch file.
UnlinkTempFileKeeping ==
    /\ pc = "unlink"
    /\ idx' = idx + 1
    /\ pc' = "loop"
    /\ UNCHANGED <<argVars, envVars, tempVars, error, exitCode, listVars, localObjects,
                   objectsToSync, processed, log, histVars, runVars>>

\* if (fs.existsSync(tempFilePath)) fs.unlinkSync(tempFilePath); next object.
UnlinkTempFile ==
    /\ pc = "unlink"
    /\ LET key == objectsToSync[idx].Key
       IN  IF key \in tempFiles
             THEN /\ tempFiles' = tempFiles \ {key}
                  /\ log' = Append(log, Event("unlink", key))
             ELSE UNCHANGED <<tempFiles, log>>
    /\ idx' = idx + 1
    /\ pc' = "loop"
    /\ UNCHANGED <<argVars, envVars, tempDir, error, exitCode, listVars, localObjects,
                   objectsToSync, processed, histVars, runVars>>

\* The catch of syncR2ToLocal without its `throw error`.
SyncCatchSwallowing ==
    /\ pc = "catch"
    /\ pc' = "finally"
    /\ error' = FALSE
    /\ UNCHANGED <<argVars, envVars, tempVars, exitCode, listVars, localObjects,
                   objectsToSync, loopVars, log, histVars, runVars>>

\* catch (error) { logError(...); throw error } of syncR2ToLocal.
SyncCatch ==
    /\ pc = "catch"
    /\ pc' = "finally"
    /\ UNCHANGED <<argVars, envVars, tempVars, error, exitCode, listVars, localObjects,
                   objectsToSync, loopVars, log, histVars, runVars>>

\* The cleanup as the last statement of the try block instead of a finally:
\* a thrown error skips it.
SyncFinallyOnSuccessOnly ==
    /\ pc = "finally"
    /\ IF error
         THEN /\ pc' = "mainCatch"
              /\ UNCHANGED <<tempVars, log, exitCode>>
         ELSE /\ tempDir' = FALSE
              /\ tempFiles' = {}
              /\ log' = IF tempDir THEN Append(log, Event("rmTemp", NoKey)) ELSE log
              /\ pc' = "exited" /\ exitCode' = 0
    /\ UNCHANGED <<argVars, envVars, error, listVars, localObjects, objectsToSync,
                   loopVars, histVars, runVars>>

\* finally { await cleanupDirectory(TEMP_DIR) } of syncR2ToLocal.  After it a
\* pending error reaches main's catch; otherwise main returns and the process
\* ends with status 0.
SyncFinally ==
    /\ pc = "finally"
    /\ tempDir' = FALSE
    /\ tempFiles' = {}
    /\ log' = IF tempDir THEN Append(log, Event("rmTemp", NoKey)) ELSE log
    /\ IF error
         THEN pc' = "mainCatch" /\ UNCHANGED exitCode
         ELSE pc' = "exited" /\ exitCode' = 0
    /\ UNCHANGED <<argVars, envVars, error, listVars, localObjects, objectsToSync,
                   loopVars, histVars, runVars>>

\* catch (error) { logError(...); process.exit(1) } of main.
MainCatch ==
    /\ pc = "mainCatch"
    /\ pc' = "exited"
    /\ exitCode' = 1
    /\ UNCHANGED <<argVars, envVars, tempVars, error, listVars, localObjects,
                   objectsToSync, loopVars, log, histVars, runVars>>

Next ==
    \/ StartRun
    \/ Terminated
    \/ RemotePut
    \/ MainArgs
    \/ CheckEnvironmentVariables
    \/ CheckWranglerAvailable
    \/ CreateRemoteClient
    \/ EnsureTempDir
    \/ CleanLocalBucket
    \/ ListRemoteObjects
    \/ RemoteListed
    \/ ListLocalObjects
    \/ Reconcile
    \/ SyncObjectsNext
    \/ DownloadObject
    \/ UploadObjectToLocal
    \/ UnlinkTempFile
    \/ SyncCatch
    \/ SyncFinally
    \/ MainCatch

Spec == Init /\ [][Next]_vars

\* The runs that start with no local store on disk and wrangler persisting
\* under ./.wrangler, every awaited listing request being answered or failing
\* in the end.
InitNoStore ==
    /\ Init
    /\ toolRoot = CleanPath
    /\ \A r \in R2Roots : store[r] = Removed

ListSpec == InitNoStore /\ [][Next]_vars /\ WF_vars(ListRemoteObjects)

\* ---------------------------------------------------------------- vocabulary
TransferEvents == {"download", "downloadFail", "upload", "uploadFail"}
InLoop == {"loop", "download", "upload", "unlink"}
\* The keys of the log's events of kind e, in order.
LoggedKeys(e) == LET is(x) == x.ev = e IN KeysOf(SelectSeq([i \in 1..Len(log) |-> [Key |-> log[i].key, ev |-> log[i].ev]], is))
\* The run got as far as syncR2ToLocal().
SyncRan == Logged("tool") /\ ~wranglerFailed /\ pc # "createClient"
\* The r2 directory of the configured wrangler directory: <stateRoot>/state/v3/r2.
ReaderRoot == Normalize(wranglerDir) \o <<"state", "v3", "r2">>

\* The keys of `keys` that are not in `local`, in order.
RECURSIVE MissingKeys(_, _)
MissingKeys(keys, local) ==
    IF keys = <<>> THEN <<>>
    ELSE (IF Head(keys) \in local THEN <<>> ELSE <<Head(keys)>>) \o MissingKeys(Tail(keys), local)

\* ---------------------------------------------------------------------- C1
\* C1: once syncR2ToLocal has run to its end, however it ended, the scratch
\* directory does not exist: it is gone when a thrown error reaches main's
\* catch, and it is gone when the process has exited, with status 1 after a
\* throw.
C1_ScratchRemovedAfterRun ==
    /\ pc = "mainCatch" => ~tempDir /\ tempFiles = {}
    /\ (pc = "exited" /\ SyncRan) =>
          /\ ~tempDir /\ tempFiles = {}
          /\ thrown => exitCode = 1

C1_Witness ==
    /\ pc = "exited" /\ Logged("uploadFail") /\ Logged("mkdirTemp") /\ Logged("rmTemp")
    /\ exitCode = 1

\* ---------------------------------------------------------------------- C2
\* C2: in normal mode the objects selected for sync are the remote objects
\* whose key is not in the local key set, in listing order, duplicates kept
\* (a listing entry without a key is no remote object and is never selected);
\* this for the local key set of the run and for every other one.
C2_NormalModeSelectsMissing ==
    [][(pc = "reconcile" /\ ~forceSync /\ ~cleanSync) =>
          /\ KeysOf(objectsToSync') = MissingKeys(KeysOf(objects), localObjects)
          /\ \A i \in 1..Len(objectsToSync') : objectsToSync'[i].Key \in Keys \ localObjects
          /\ \A L \in SUBSET Keys :
                KeysOf(FilterObjects(objects, L, FALSE, FALSE)) = MissingKeys(KeysOf(objects), L)
      ]_vars

C2_Witness ==
    /\ pc = "loop" /\ ~forceSync /\ ~cleanSync
    /\ Len(objects) = 2 /\ Len(objectsToSync) = 1 /\ localObjects # {}

\* ---------------------------------------------------------------------- C3
\* C3: in force mode and in clean mode the keys selected for sync are the
\* remote keys, all of them, in listing order, whatever the local key set.
C3_ForceOrCleanSelectsAll ==
    [][(pc = "reconcile" /\ (forceSync \/ cleanSync)) =>
          /\ KeysOf(objectsToSync') = KeysOf(objects)
          /\ \A L \in SUBSET Keys :
                KeysOf(FilterObjects(objects, L, forceSync, cleanSync)) = KeysOf(objects)
      ]_vars

C3_Witness ==
    /\ pc = "loop" /\ forceSync /\ ~cleanSync
    /\ Len(objectsToSync) = 2
    /\ store[ReaderRoot].keys = {objectsToSync[1].Key}

\* ---------------------------------------------------------------------- C4
\* What the idempotence claim is about: the invocation before this one was a
\* successful normal-mode sync, the bucket has not changed since, this one is
\* a normal-mode run with the same wrangler directory, and wrangler persists
\* the uploads in the store that directory names.
SecondNormalRun ==
    /\ prev.normalOk /\ prev.dir = wranglerDir /\ BUCKET_NAME # ""
    /\ ~forceSync /\ ~cleanSync
    /\ toolRoot = ReaderRoot

NothingTransferred ==
    /\ objectsToSync = <<>>
    /\ \A i \in 1..Len(log) : log[i].ev \notin TransferEvents

C5_CleanRemovesConfiguredStore ==
    (cleanSync /\ pc = "listRemote" /\ ~Logged("list")) =>
        store[ReaderRoot].status = "noroot"

\* ---------------------------------------------------------------------- C6
\* A step takes something away from a local store: a directory or a database
\* that was there is gone, or a key that was registered is not any more.
StoreLoses ==
    \E r \in R2Roots :
        \/ store[r].status # "noroot" /\ store'[r].status = "noroot"
        \/ store[r].status = "db" /\ store'[r].status # "db"
        \/ ~(store[r].keys \subseteq store'[r].keys)

\* C6: a local store is deleted only by a clean-mode run, and then before the
\* first remote listing request and before any download or upload; and the
\* deletion the log records is its first I/O after the scratch directory.
C6_DeletionOnlyInCleanModeAndFirst ==
    [][StoreLoses =>
          /\ cleanSync /\ pc = "clean"
          /\ \A i \in 1..Len(log) : log[i].ev \notin ({"list"} \cup TransferEvents)
          /\ log' = Append(log, Event("rmStore", NoKey))
      ]_vars

C6_Witness ==
    /\ cleanSync /\ Logged("rmStore") /\ Logged("list") /\ Logged("upload")
    /\ pc = "exited"

\* ---------------------------------------------------------------------- C7
\* C7: when the upload of the i-th selected object fails, nothing is
\* downloaded or uploaded after it, the i-1 objects before it were uploaded
\* and are still in the store, the loop does not advance, the error is
\* pending until main's catch, and the process exits with status 1.
C7_UploadFailureAborts ==
    \A i \in 1..Len(log) :
        log[i].ev = "uploadFail" =>
            /\ \A j \in (i + 1)..Len(log) : log[j].ev \notin TransferEvents
            /\ log[i].key = objectsToSync[idx].Key
            /\ LoggedKeys("upload") = KeysOf(SubSeq(objectsToSync, 1, idx - 1))
            /\ \A j \in 1..(i - 1) :
                  log[j].ev = "upload" => log[j].key \in store[toolRoot].keys
            /\ error /\ pc \in {"catch", "finally", "mainCatch", "exited"}
            /\ pc = "exited" => exitCode = 1

C7_Witness ==
    /\ pc = "exited" /\ idx = 2 /\ Len(objectsToSync) = 2
    /\ Logged("upload") /\ Logged("uploadFail")

\* ---------------------------------------------------------------------- C8
LocalListingFailed == localListing \in {"nodir", "nodb", "readError"}

\* C8: when the local listing fails (directory absent, database absent, read
\* error) the key set is empty and the run goes on: no error is pending at
\* the reconciliation, every remote key is selected, the only errors after it
\* are failed downloads and uploads, and a run without one has uploaded every
\* remote key and exits with 0.
C8_LocalListingFailureDegrades ==
    LocalListingFailed =>
        /\ localObjects = {}
        /\ pc \in {"reconcile", "finally", "catch", "mainCatch", "exited"} \cup InLoop
        /\ pc = "reconcile" => ~error /\ ~thrown
        /\ (error \/ thrown) => (Logged("downloadFail") \/ Logged("uploadFail"))
        /\ pc \in InLoop => ~error /\ KeysOf(objectsToSync) = KeysOf(objects)
        /\ (pc = "exited" /\ ~thrown) =>
              exitCode = 0 /\ LoggedKeys("upload") = KeysOf(objects)

C8_Witness ==
    /\ localListing = "readError" /\ pc = "exited" /\ exitCode = 0
    /\ LoggedKeys("upload") = <<"a", "b">>
    /\ store[ReaderRoot].status = "db"

\* ---------------------------------------------------------------------- C9
NoIO ==
    /\ log = <<>>
    /\ ~tempDir
    /\ pc \in {"main", "checkEnv", "exited"}

\* C9 as claimed: with a credential missing the run does no I/O and exits
\* with status 1.
C9_MissingCredentialExitsOne ==
    (Missing # {} /\ pc # "idle") =>
        /\ NoIO
        /\ pc = "exited" => exitCode = 1

\* C9 as amended: with a credential missing the run does no I/O; it exits
\* with status 1 unless it is a help request or names no bucket, which main
\* answers with the usage and status 0 before it looks at the credentials.
C9_MissingCredentialStopsBeforeIO ==
    (Missing # {} /\ pc # "idle") =>
        /\ NoIO
        /\ pc = "exited" => exitCode = (IF helpArg \/ BUCKET_NAME = "" THEN 0 ELSE 1)

C9_Witness ==
    /\ pc = "exited" /\ exitCode = 1 /\ ~helpArg /\ BUCKET_NAME # ""
    /\ Cardinality(Missing) = 1 /\ cleanSync

\* --------------------------------------------------------------------- C10
Informational == helpArg \/ BUCKET_NAME = ""
CheckedFailure == ~Informational /\ (Missing # {} \/ wranglerFailed \/ thrown)
\* syncR2ToLocal came to its end: the remote listing was empty, nothing was
\* to sync, or every selected object was uploaded.
SyncSucceeded ==
    /\ ~Informational /\ Logged("list") /\ continuationToken = 0
    /\ \A i \in 1..Len(log) : log[i].ev \notin {"downloadFail", "uploadFail"}
    /\ \/ Len(objects) = 0
       \/ LoggedKeys("upload") = KeysOf(FilterObjects(objects, localObjects, forceSync, cleanSync))

\* C10: the exit status is 0 or 1; it is 0 exactly after a successful sync
\* and after the help / missing-bucket-name exit, and 1 after every checked
\* failure.
C10_ExitStatus ==
    pc = "exited" =>
        /\ exitCode \in {0, 1}
        /\ exitCode = 0 <=> (Informational \/ (SyncSucceeded /\ ~thrown))
        /\ CheckedFailure => exitCode = 1
        /\ exitCode = 1 => CheckedFailure

C10_Witness ==
    /\ pc = "exited" /\ exitCode = 1 /\ thrown
    /\ Logged("mkdirTemp") /\ Logged("list") /\ ~Logged("download")
\* --------------------------------------------------------------------- C11
\* The remote listing came back, without an error, with no entry at all.
EmptyListing ==
    /\ Logged("list") /\ ~thrown /\ objects = <<>>
    /\ pc \notin {"listRemote", "idle"}

\* C11: after an empty remote listing the run ends successfully: the local
\* store is not listed, its database is not opened, nothing is downloaded or
\* uploaded, no error is pending, and the exit status is 0.
C11_EmptyListingEndsRun ==
    EmptyListing =>
        /\ pc \in {"listed", "finally", "exited"}
        /\ localListing = "none" /\ ~Logged("openDb")
        /\ objectsToSync = <<>>
        /\ \A i \in 1..Len(log) : log[i].ev \notin TransferEvents
        /\ ~error
        /\ pc = "exited" => exitCode = 0

C11_Witness ==
    /\ EmptyListing /\ pc = "exited" /\ exitCode = 0
    /\ ~forceSync /\ ~cleanSync /\ store[ReaderRoot].status = "db"
    /\ Logged("rmTemp")
\* --------------------------------------------------------------------- C12
\* Listing requests made so far in the run.
ListCalls == Cardinality({i \in 1..Len(log) : log[i].ev = "list"})
\* Pages of a bucket of n objects; an empty bucket answers with one empty page.
NumPages(n) == IF n = 0 THEN 1 ELSE (n + PageSize - 1) \div PageSize
\* A listing request failed: an error was thrown after a request and it was
\* no download and no upload.
ListingFailed ==
    /\ thrown /\ Logged("list")
    /\ ~Logged("downloadFail") /\ ~Logged("uploadFail")

C12_Paging ==
    /\ pc = "listRemote" =>
          /\ continuationToken = ListCalls * PageSize
          /\ continuationToken < Len(remote) \/ continuationToken = 0
          /\ objects = SubSeq(remote, 1, continuationToken)
    /\ pc = "listed" =>
          /\ objects = remote
          /\ continuationToken = 0
          /\ ListCalls = NumPages(Len(remote))
    /\ ListingFailed =>
          /\ pc \in {"catch", "finally", "mainCatch", "exited"}
          /\ ListCalls <= NumPages(Len(remote))
          /\ objectsToSync = <<>> /\ localListing = "none"
          /\ \A i \in 1..Len(log) : log[i].ev \notin TransferEvents
          /\ pc = "exited" => exitCode = 1

\* C12: every listing request carries the cursor of the response before it
\* (the k-th request asks for what follows the first k-1 pages), the requests
\* stop with the first response without a cursor, the result is then the
\* bucket's objects page after page, a failed request ends the listing with
\* an error and nothing of the pages read is used, and the listing always
\* comes to an end.
C12_ListingFollowsPagination ==
    /\ []C12_Paging
    /\ (pc = "listRemote") ~> (pc \in {"listed", "catch"})

C12_Witness ==
    /\ pc = "listed" /\ Len(objects) = MaxObjects /\ ListCalls >= 2
\* --------------------------------------------------------------------- C13
IsObjectStep(e) == e.ev \in TransferEvents \cup {"unlink"}
\* The steps taken on objects so far in the run, in the order taken.
ObjectSteps == SelectSeq(log, IsObjectStep)
\* The keys of the selected objects, in listing order.
SelectedKeys == KeysOf(objectsToSync)
StepKinds(s) ==
    CASE s = 0 -> {"download", "downloadFail"}
      [] s = 1 -> {"upload", "uploadFail"}
      [] s = 2 -> {"unlink"}

\* C13: the steps taken on objects are, in order, download, upload, unlink of
\* the first selected object, then download, upload, unlink of the second,
\* and so on in listing order; a failed step is the last step of the run; the
\* step being taken is the one that follows the steps taken; and a run that
\* transfers and succeeds has taken all three steps of every selected object,
\* each exactly once.
C13_OneObjectAtATimeInOrder ==
    /\ \A j \in 1..Len(ObjectSteps) :
          /\ (j - 1) \div 3 + 1 <= Len(SelectedKeys)
          /\ ObjectSteps[j].key = SelectedKeys[(j - 1) \div 3 + 1]
          /\ ObjectSteps[j].ev \in StepKinds((j - 1) % 3)
          /\ ObjectSteps[j].ev \in {"downloadFail", "uploadFail"} => j = Len(ObjectSteps)
    /\ pc = "download" => Len(ObjectSteps) % 3 = 0
    /\ pc = "upload" => Len(ObjectSteps) % 3 = 1
    /\ pc = "unlink" => Len(ObjectSteps) % 3 = 2
    /\ pc \in {"download", "upload", "unlink"} =>
          objectsToSync[idx].Key = SelectedKeys[Len(ObjectSteps) \div 3 + 1]
    /\ (pc = "exited" /\ exitCode = 0) => Len(ObjectSteps) = 3 * Len(SelectedKeys)

C13_Witness ==
    /\ pc = "exited" /\ exitCode = 0
    /\ Len(SelectedKeys) = 2 /\ SelectedKeys[1] # SelectedKeys[2]
    /\ Len(ObjectSteps) = 6
\* --------------------------------------------------------------------- C14
\* C14: the scratch directory never holds more than one scratch file; when
\* an object is about to be downloaded no scratch file exists; a scratch file
\* lies in an existing scratch directory; and once an upload has failed the
\* loop is left, the only file that can remain being that of the failed
\* upload.
C14_AtMostOneScratchFile ==
    /\ Cardinality(tempFiles) <= 1
    /\ tempFiles # {} => tempDir
    /\ pc \in {"loop", "download"} => tempFiles = {}
    /\ Logged("uploadFail") =>
          /\ pc \notin InLoop
          /\ ObjectSteps[Len(ObjectSteps)].ev = "uploadFail"
          /\ tempFiles \subseteq {ObjectSteps[Len(ObjectSteps)].key}

C14_Witness ==
    /\ pc = "upload" /\ Logged("unlink")
    /\ tempFiles = {objectsToSync[idx].Key}
    /\ objectsToSync[idx].Key # ObjectSteps[1].key
\* --------------------------------------------------------------------- C15
\* C15: in clean mode and in force mode the local listing step is never
\* taken: the local store is not looked at, its database is not opened, and
\* the local key set is empty whenever the objects to sync are selected and
\* ever after.
C15_CleanOrForceSkipsLocalListing ==
    (cleanSync \/ forceSync) =>
        /\ pc # "listLocal"
        /\ localListing = "none"
        /\ ~Logged("openDb")
        /\ localObjects = {}

C15_Witness ==
    /\ forceSync /\ ~cleanSync
    /\ pc = "exited" /\ exitCode = 0
    /\ store[ReaderRoot].status = "db"
    /\ Logged("upload")
\* --------------------------------------------------------------------- C16
\* A clean-mode run is over whose remote listing failed or came back empty.
CleanRunWithoutObjects ==
    /\ cleanSync /\ pc = "exited"
    /\ ListingFailed \/ EmptyListing

\* C16: a clean-mode run whose remote listing fails or returns no object
\* ends with the local store, the r2 directory under the configured wrangler
\* directory, deleted, and with nothing downloaded or uploaded.
C16_CleanRunEndsWithStoreDeleted ==
    CleanRunWithoutObjects =>
        /\ store[ReaderRoot].status = "noroot"
        /\ \A i \in 1..Len(log) : log[i].ev \notin TransferEvents
====
